---- MODULE Spec2Model ----
(***************************************************************************)
(* Model of src/main.py (faresze/discipline-app): the session timer of     *)
(* DisciplineApp, its check-in dialog, the hourly_logs table and the task  *)
(* list, as the event handlers of main(page) drive them.                   *)
(*                                                                         *)
(* Every handler runs on the one asyncio event loop, so a handler is       *)
(* atomic up to its next await.  The only await that yields is             *)
(* asyncio.sleep(1) in run_timer: start_work runs from the click through   *)
(* the first iteration of run_timer in one step, and a loop that wakes     *)
(* runs one iteration (or leaves the loop) in one step.                    *)
(*                                                                         *)
(* A handler can run whenever the code leaves its control enabled: the     *)
(* goal selector is disabled while working, the dialog's buttons and note  *)
(* field exist only while the dialog is open, and modal=True only means    *)
(* the dialog is closed by its two buttons and by nothing else.            *)
(*                                                                         *)
(* Not modelled: colours, labels, the snack bar, the quotation, the        *)
(* start_time stamp (written, never read) and the timestamp column of      *)
(* hourly_logs (the wall clock of datetime.now()).                         *)
(***************************************************************************)
EXTENDS Integers, Sequences, FiniteSets, TLC

\* ------------------------------------------------------------------ bounds
\* Horizon of the full specification (worked_seconds never exceeds it).
MaxSeconds == 3
\* Seconds the session specification runs past the second check-in.
SessionTail == 2
\* run_timer coroutines alive at once.
MaxTimers == 2
\* Completed sleeps the history variable periods counts before it saturates.
MaxPeriods == 2
\* Rows of the task list.
MaxTasks == 1
\* Worked seconds the display specification runs from each sampled start.
DisplayWindow == 4
\* Rows hourly_logs holds when the process starts (discipline.db is kept
\* between runs).
MaxPriorRows == 1

\* ------------------------------------------------------- program constants
DEFAULT_TARGET_HOURS == 10
CHECK_IN_INTERVAL == 15 * 60
SecondsPerHour == 3600

\* Texts are sequences of tokens; a digit string is a sequence of digits.
DefaultFocus == "General Work"
\* Mutant: the goal selector also offers 7.
DropdownOptionsWithSeven == { <<3>>, <<5>>, <<7>>, <<8>>, <<1, 0>>, <<1, 2>> }

\* ft.dropdown.Option("3"), ("5"), ("8"), ("10"), ("12")
DropdownOptions == { <<3>>, <<5>>, <<8>>, <<1, 0>>, <<1, 2>> }
\* What a user may ask the goal selector for; it offers only its options.
RequestedOptions == DropdownOptions \cup { <<7>> }
\* What the user can type into note_input and task_input.
NoteTexts == { "", "tired" }
TaskTexts == { "", "read" }

\* ------------------------------------------------------------------- state
VARIABLES
    is_working,         \* app_logic.is_working
    worked_seconds,     \* app_logic.worked_seconds
    daily_target,       \* app_logic.daily_target
    current_task_focus, \* app_logic.current_task_focus
    target_dropdown,    \* [value, disabled] of the goal selector
    timer_text,         \* timer_text.value: <<HH, MM, SS>>, each a digit string
    progress_bar,       \* progress_bar.value: <<numerator, denominator>>
    task_input,         \* task_input.value
    tasks_column,       \* tasks_column.controls: the task texts, in order
    note_input,         \* note_input.value
    dialog_open,        \* page.dialog is log_dialog and is open
    hourly_logs,        \* rows of the table, in insertion order
    run_timers,         \* run_timer coroutines suspended in asyncio.sleep(1)
    check_ins,          \* history: worked_seconds at each check-in raised
    periods,            \* history: sleeps completed while is_working, capped
    rows_at_start       \* history: rows hourly_logs held when the process began

vars == << is_working, worked_seconds, daily_target, current_task_focus,
           target_dropdown, timer_text, progress_bar, task_input,
           tasks_column, note_input, dialog_open, hourly_logs, run_timers,
           check_ins, periods, rows_at_start >>

timerVars == << worked_seconds, timer_text, progress_bar, dialog_open,
                check_ins >>
taskVars == << task_input, tasks_column >>
targetVars == << daily_target, target_dropdown >>

\* ----------------------------------------------------------- pure helpers
\* divmod(a, b)
divmod(a, b) == << a \div b, a % b >>

RECURSIVE Digits(_)
\* The decimal digits of n >= 0, most significant first.
Digits(n) == IF n < 10 THEN << n >> ELSE Append(Digits(n \div 10), n % 10)

\* "{:02d}".format(n) for n >= 0
Format02d(n) == IF n < 10 THEN << 0, n >> ELSE Digits(n)

RECURSIVE int(_)
\* int(s) for a digit string s
int(s) == IF Len(s) = 0 THEN 0
          ELSE 10 * int(SubSeq(s, 1, Len(s) - 1)) + s[Len(s)]

\* str(n)
str(n) == Digits(n)

\* Mutant: the second divmod is dropped, so the minutes are not reduced.
TimerTextMinutesNotReduced(seconds) ==
    LET ms == divmod(seconds, 60)
    IN  << Format02d(ms[1] \div 60), Format02d(ms[1]), Format02d(ms[2]) >>

\* mins, secs = divmod(worked_seconds, 60); hours, mins = divmod(mins, 60)
\* timer_text.value = "{:02d}:{:02d}:{:02d}".format(hours, mins, secs)
TimerText(seconds) ==
    LET ms == divmod(seconds, 60)
        hm == divmod(ms[1], 60)
    IN  << Format02d(hm[1]), Format02d(hm[2]), Format02d(ms[2]) >>

\* Mutant: the min(progress, 1.0) is dropped.
ProgressValueUnclamped(seconds, target) ==
    << seconds, target * SecondsPerHour >>

\* progress = worked_seconds / (daily_target * 3600); min(progress, 1.0)
\* as a fraction <<numerator, denominator>>; 1.0 is <<1, 1>>.
ProgressValue(seconds, target) ==
    LET den == target * SecondsPerHour
    IN  IF seconds > den THEN << 1, 1 >> ELSE << seconds, den >>

\* Mutant: a level check, true at every second from the first multiple on.
IsCheckInLevel(seconds) == seconds >= CHECK_IN_INTERVAL

\* worked_seconds % CHECK_IN_INTERVAL == 0 and worked_seconds > 0
IsCheckIn(seconds) == seconds % CHECK_IN_INTERVAL = 0 /\ seconds > 0

\* f"<answer>{note}" with note = f" - note: {note_input.value}" if
\* note_input.value else ""
ActivityText(answer, note) ==
    IF note # "" THEN << answer, " - note: ", note >> ELSE << answer >>

\* Mutant: the id is the row count, which repeats the largest id so far.
NextIdFromCount(rows) == IF rows = << >> THEN 1 ELSE Len(rows)

\* The id AUTOINCREMENT gives the next row: one more than the largest so far.
NextId(rows) ==
    IF rows = << >> THEN 1
    ELSE 1 + CHOOSE m \in { rows[i].id : i \in 1..Len(rows) } :
                 \A i \in 1..Len(rows) : rows[i].id <= m

\* Mutant: the score argument is dropped and the default 0 is stored.
log_activityDefaultScore(rows, activity_text, score) ==
    Append(rows, [ id |-> NextId(rows), activity |-> activity_text,
                   productivity_score |-> 0 ])

\* DisciplineApp.log_activity: one INSERT, committed.
log_activity(rows, activity_text, score) ==
    Append(rows, [ id |-> NextId(rows), activity |-> activity_text,
                   productivity_score |-> score ])

\* The sequence s without its i-th element.
RemoveAt(s, i) == SubSeq(s, 1, i - 1) \o SubSeq(s, i + 1, Len(s))

\* What hourly_logs can hold when the process starts.
PriorLogs ==
    { << >> } \cup
    { [ i \in 1..n |-> [ id |-> i, activity |-> << "yes" >>,
                         productivity_score |-> 1 ] ] : n \in 1..MaxPriorRows }

\* ----------------------------------------------------------------- Init
\* DisciplineApp.__init__ and the controls main(page) builds.
Init ==
    /\ is_working = FALSE
    /\ worked_seconds = 0
    /\ daily_target = DEFAULT_TARGET_HOURS
    /\ current_task_focus = DefaultFocus
    /\ target_dropdown = [ value |-> str(DEFAULT_TARGET_HOURS),
                           disabled |-> FALSE ]
    /\ timer_text = << << 0, 0 >>, << 0, 0 >>, << 0, 0 >> >>
    /\ progress_bar = << 0, 1 >>
    /\ task_input = ""
    /\ tasks_column = << >>
    /\ note_input = ""
    /\ dialog_open = FALSE
    /\ hourly_logs \in PriorLogs
    /\ run_timers = 0
    /\ check_ins = << >>
    /\ periods = 0
    /\ rows_at_start = Len(hourly_logs)

\* ---------------------------------------------------------------- actions
\* Mutant: the loop never tests is_working again.
LoopConditionAlways == TRUE

\* Mutant: the loop also stops while the check-in dialog is open.
LoopConditionNoPrompt == is_working /\ ~dialog_open

\* while app_logic.is_working: the test a run_timer makes before an iteration.
LoopCondition == is_working

\* Mutant: the goal selector is never disabled.
SetDisabledForgotten(dropdown, flag) == dropdown

\* target_dropdown.disabled = True / False
SetDisabled(dropdown, flag) == [ dropdown EXCEPT !.disabled = flag ]

\* One iteration of the body of run_timer's while loop, up to the sleep.
TimerIteration ==
    /\ worked_seconds' = worked_seconds + 1
    /\ timer_text' = TimerText(worked_seconds')
    /\ progress_bar' = ProgressValue(worked_seconds', daily_target)
    /\ IF IsCheckIn(worked_seconds')
       THEN /\ dialog_open' = TRUE
            /\ check_ins' = Append(check_ins, worked_seconds')
       ELSE UNCHANGED << dialog_open, check_ins >>

\* start_work, is_working false: start, then run_timer up to its first sleep.
StartWork(limit) ==
    /\ UNCHANGED rows_at_start
    /\ ~is_working
    /\ worked_seconds < limit
    /\ run_timers < MaxTimers
    /\ is_working' = TRUE
    /\ target_dropdown' = SetDisabled(target_dropdown, TRUE)
    /\ TimerIteration
    /\ run_timers' = run_timers + 1
    /\ UNCHANGED << daily_target, current_task_focus, taskVars, note_input,
                    hourly_logs, periods >>

\* Mutant: stopping also dismisses the open check-in dialog.
StopWorkClosingDialog ==
    /\ UNCHANGED rows_at_start
    /\ is_working
    /\ is_working' = FALSE
    /\ target_dropdown' = SetDisabled(target_dropdown, FALSE)
    /\ dialog_open' = FALSE
    /\ note_input' = ""
    /\ UNCHANGED << worked_seconds, timer_text, progress_bar, check_ins,
                    daily_target, current_task_focus, taskVars, hourly_logs,
                    run_timers, periods >>

\* start_work, is_working true: stop.
StopWork ==
    /\ UNCHANGED rows_at_start
    /\ is_working
    /\ is_working' = FALSE
    /\ target_dropdown' = SetDisabled(target_dropdown, FALSE)
    /\ UNCHANGED << timerVars, daily_target, current_task_focus, taskVars,
                    note_input, hourly_logs, run_timers, periods >>

\* asyncio.sleep(1) of one run_timer returns: the loop tests is_working and
\* either runs another iteration or ends.
WakeTimer(limit) ==
    /\ UNCHANGED rows_at_start
    /\ run_timers > 0
    /\ IF LoopCondition
       THEN /\ worked_seconds < limit
            /\ TimerIteration
            /\ periods' = IF periods < MaxPeriods THEN periods + 1 ELSE periods
            /\ UNCHANGED run_timers
       ELSE /\ run_timers' = run_timers - 1
            /\ UNCHANGED << timerVars, periods >>
    /\ UNCHANGED << is_working, targetVars, current_task_focus, taskVars,
                    note_input, hourly_logs >>

\* The user picks an option of target_dropdown; on_target_change runs.
OnTargetChange ==
    /\ UNCHANGED rows_at_start
    /\ ~target_dropdown.disabled
    /\ \E option \in RequestedOptions :
          /\ option \in DropdownOptions
          /\ target_dropdown' = [ target_dropdown EXCEPT !.value = option ]
          /\ daily_target' = int(option)
    /\ UNCHANGED << is_working, timerVars, current_task_focus, taskVars,
                    note_input, hourly_logs, run_timers, periods >>

\* The user edits task_input.
TypeTask ==
    /\ UNCHANGED rows_at_start
    /\ \E text \in TaskTexts : task_input' = text
    /\ task_input' # task_input
    /\ UNCHANGED << is_working, timerVars, targetVars, current_task_focus,
                    tasks_column, note_input, hourly_logs, run_timers,
                    periods >>

\* add_task
AddTask ==
    /\ UNCHANGED rows_at_start
    /\ IF task_input = ""
       THEN UNCHANGED taskVars
       ELSE /\ Len(tasks_column) < MaxTasks
            /\ tasks_column' = Append(tasks_column, task_input)
            /\ task_input' = ""
    /\ UNCHANGED << is_working, timerVars, targetVars, current_task_focus,
                    note_input, hourly_logs, run_timers, periods >>

\* on_delete_click of a task row: delete_task
DeleteTask ==
    /\ UNCHANGED rows_at_start
    /\ \E i \in 1..Len(tasks_column) :
          tasks_column' = RemoveAt(tasks_column, i)
    /\ UNCHANGED << is_working, timerVars, targetVars, current_task_focus,
                    task_input, note_input, hourly_logs, run_timers, periods >>

\* Mutant: the focus can be set only while the timer is stopped.
SetFocusTaskWhenIdle ==
    /\ UNCHANGED rows_at_start
    /\ ~is_working
    /\ \E i \in 1..Len(tasks_column) :
          current_task_focus' = tasks_column[i]
    /\ UNCHANGED << is_working, timerVars, targetVars, taskVars, note_input,
                    hourly_logs, run_timers, periods >>

\* on_focus_click of a task row: set_focus_task(task_text)
SetFocusTask ==
    /\ UNCHANGED rows_at_start
    /\ \E i \in 1..Len(tasks_column) :
          current_task_focus' = tasks_column[i]
    /\ UNCHANGED << is_working, timerVars, targetVars, taskVars, note_input,
                    hourly_logs, run_timers, periods >>

\* The user edits note_input, a field of the open dialog.
TypeNote ==
    /\ UNCHANGED rows_at_start
    /\ dialog_open
    /\ \E text \in NoteTexts : note_input' = text
    /\ note_input' # note_input
    /\ UNCHANGED << is_working, timerVars, targetVars, current_task_focus,
                    taskVars, hourly_logs, run_timers, periods >>

\* Mutant: page.close_dialog() is forgotten, the dialog stays open.
HandleAnswerKeepsDialog(answer, score) ==
    /\ UNCHANGED rows_at_start
    /\ dialog_open
    /\ hourly_logs' =
          log_activity(hourly_logs, ActivityText(answer, note_input), score)
    /\ note_input' = ""
    /\ UNCHANGED << is_working, timerVars, targetVars, current_task_focus,
                    taskVars, run_timers, periods >>

\* handle_yes / handle_no share everything but the answer and the score.
HandleAnswer(answer, score) ==
    /\ UNCHANGED rows_at_start
    /\ dialog_open
    /\ hourly_logs' =
          log_activity(hourly_logs, ActivityText(answer, note_input), score)
    /\ note_input' = ""
    /\ dialog_open' = FALSE
    /\ UNCHANGED << is_working, worked_seconds, timer_text, progress_bar,
                    check_ins, targetVars, current_task_focus, taskVars,
                    run_timers, periods >>

\* handle_yes
HandleYes == HandleAnswer("yes", 1)

\* handle_no
HandleNo == HandleAnswer("no", 0)

\* --------------------------------------------------------- specifications
\* Worked seconds of a session long enough for two check-ins.
SessionSeconds == 2 * CHECK_IN_INTERVAL + SessionTail

\* A working session: the user works the start button and answers the
\* check-in dialog, for up to SessionSeconds worked seconds.
Next ==
    \/ StartWork(SessionSeconds)
    \/ StopWork
    \/ WakeTimer(SessionSeconds)
    \/ TypeNote
    \/ HandleYes
    \/ HandleNo

Spec == Init /\ [][Next]_vars

\* The session with its scheduling: asyncio.sleep(1) returns, so a suspended
\* run_timer is woken in the end.
FairSpec == Spec /\ WF_vars(WakeTimer(SessionSeconds))

\* The first MaxSeconds worked seconds, before any check-in: the user works
\* the start button, the goal selector and the task list.
PanelNext ==
    \/ StartWork(MaxSeconds)
    \/ StopWork
    \/ WakeTimer(MaxSeconds)
    \/ OnTargetChange
    \/ TypeTask
    \/ AddTask
    \/ DeleteTask
    \/ SetFocusTask

PanelSpec == Init /\ [][PanelNext]_vars

\* Worked seconds of a session that passes one check-in.
FocusSeconds == CHECK_IN_INTERVAL + SessionTail

\* A session with the task list: the user works the start button and the
\* task list and leaves the check-in dialog unanswered.
FocusNext ==
    \/ StartWork(FocusSeconds)
    \/ StopWork
    \/ WakeTimer(FocusSeconds)
    \/ TypeTask
    \/ AddTask
    \/ DeleteTask
    \/ SetFocusTask

FocusSpec == Init /\ [][FocusNext]_vars

\* Worked seconds at which the display specification starts: just before a
\* target is met (3, 5, 8, 10, 12 hours), and before 01:02:05, 50000 seconds
\* and 24 hours.
DisplaySamples ==
    { 0, 3723, 49998, 86398 } \cup
    { int(option) * SecondsPerHour - 2 : option \in DropdownOptions }

\* A paused state of the program after `seconds` worked seconds under
\* `target`: the target was chosen first, one loop ran and has ended, and the
\* check-in dialog, never answered, is still open.
PausedAfter(seconds, target) ==
    /\ is_working = FALSE
    /\ worked_seconds = seconds
    /\ daily_target = target
    /\ current_task_focus = DefaultFocus
    /\ target_dropdown = [ value |-> str(target), disabled |-> FALSE ]
    /\ timer_text = TimerText(seconds)
    /\ progress_bar = IF seconds = 0 THEN << 0, 1 >>
                      ELSE ProgressValue(seconds, target)
    /\ task_input = ""
    /\ tasks_column = << >>
    /\ note_input = ""
    /\ dialog_open = (seconds >= CHECK_IN_INTERVAL)
    /\ hourly_logs \in PriorLogs
    /\ run_timers = 0
    /\ check_ins = [ i \in 1..(seconds \div CHECK_IN_INTERVAL) |->
                       i * CHECK_IN_INTERVAL ]
    /\ periods = IF seconds - 1 < MaxPeriods
                 THEN (IF seconds = 0 THEN 0 ELSE seconds - 1)
                 ELSE MaxPeriods
    /\ rows_at_start = Len(hourly_logs)

DisplayInit ==
    \E seconds \in DisplaySamples :
       \E option \in DropdownOptions : PausedAfter(seconds, int(option))

\* The end of the window the current worked_seconds lies in.
DisplayLimit ==
    DisplayWindow +
    CHOOSE s \in DisplaySamples :
        s <= worked_seconds /\ worked_seconds <= s + DisplayWindow

\* Long sessions: the timer resumes from a sampled paused state and runs
\* DisplayWindow seconds; the user works the start button and the goal
\* selector.
DisplayNext ==
    \/ StartWork(DisplayLimit)
    \/ StopWork
    \/ WakeTimer(DisplayLimit)
    \/ OnTargetChange

DisplaySpec == DisplayInit /\ [][DisplayNext]_vars

\* ------------------------------------------------------------------ claims
\* C1: the check-in is raised by a tick exactly when the incremented
\* worked_seconds is a positive multiple of CHECK_IN_INTERVAL, once for each
\* multiple over the whole run: the check-ins raised so far are exactly the
\* multiples 900, 1800, ... up to worked_seconds, each once, in order.
C1_CheckInOncePerMultiple ==
    check_ins = [ i \in 1..(worked_seconds \div CHECK_IN_INTERVAL) |->
                    i * CHECK_IN_INTERVAL ]

\* C1 witness: a run past the second multiple, with two loops alive.
C1_Witness ==
    /\ worked_seconds > 2 * CHECK_IN_INTERVAL
    /\ check_ins = << CHECK_IN_INTERVAL, 2 * CHECK_IN_INTERVAL >>
    /\ run_timers = 2

\* C2: worked_seconds changes only by +1 and only in a step taken while
\* is_working is true (so not in a toggle).
C2_ElapsedOnlyTicksWhileWorking ==
    [][ worked_seconds' # worked_seconds =>
            (is_working /\ worked_seconds' = worked_seconds + 1) ]_vars

\* C3: at most one run_timer loop is alive in every reachable state.
C3_OneTimerLoop == run_timers <= 1

\* C4: worked_seconds equals the number of one-second sleeps that completed
\* while is_working was true (as far as periods counts them).
C4_ElapsedEqualsPeriods == periods < MaxPeriods => worked_seconds = periods

\* C5: a toggle, in either direction, leaves worked_seconds unchanged.
C5_ToggleKeepsElapsed ==
    [][ is_working' # is_working => worked_seconds' = worked_seconds ]_vars

C7_AnswerAppendsOneRow ==
    [][ (dialog_open /\ ~dialog_open') =>
            LET row == hourly_logs'[Len(hourly_logs')]
            IN  /\ Len(hourly_logs') = Len(hourly_logs) + 1
                /\ SubSeq(hourly_logs', 1, Len(hourly_logs)) = hourly_logs
                /\ \/ row.activity[1] = "yes" /\ row.productivity_score = 1
                   \/ row.activity[1] = "no" /\ row.productivity_score = 0
                /\ IF note_input # ""
                   THEN Len(row.activity) = 3 /\ row.activity[3] = note_input
                   ELSE Len(row.activity) = 1
                /\ note_input' = ""
                /\ UNCHANGED << is_working, worked_seconds, daily_target,
                                current_task_focus >> ]_vars

\* C7 witness: a yes with a note and a no without one were both logged.
C7_Witness ==
    /\ ~dialog_open
    /\ \E i \in 1..Len(hourly_logs) :
          /\ hourly_logs[i].productivity_score = 1
          /\ Len(hourly_logs[i].activity) = 3
    /\ \E i \in 1..Len(hourly_logs) :
          /\ hourly_logs[i].productivity_score = 0
          /\ Len(hourly_logs[i].activity) = 1

\* C8: the goal selector is disabled exactly while is_working is true, and
\* no step taken while is_working is true changes daily_target.
C8_TargetFixedWhileWorking ==
    [][ /\ target_dropdown.disabled = is_working
        /\ is_working => daily_target' = daily_target ]_vars

\* C8 witness: a target chosen while stopped, with the timer working again.
C8_Witness ==
    /\ is_working
    /\ target_dropdown.disabled
    /\ daily_target # DEFAULT_TARGET_HOURS

\* The enumerated daily targets.
TargetHours == { 3, 5, 8, 10, 12 }

\* C9: daily_target is always one of 3, 5, 8, 10, 12 and is the number the
\* goal selector shows; no request for another value (7) can take effect.
C9_TargetInOptions ==
    /\ daily_target \in TargetHours
    /\ int(target_dropdown.value) = daily_target
    /\ ~ ENABLED (OnTargetChange /\ daily_target' \notin TargetHours)

\* C9 witness: the target was changed, here to the smallest option.
C9_Witness == daily_target = 3 /\ ~is_working /\ worked_seconds > 0

\* C10: while working with the check-in dialog open, a timer loop is alive
\* and its next wake-up increments worked_seconds.
C10_PromptDoesNotBlockTimer ==
    (is_working /\ dialog_open /\ worked_seconds < SessionSeconds) =>
        ENABLED (WakeTimer(SessionSeconds)
                 /\ worked_seconds' = worked_seconds + 1)

\* C10 witness: two seconds ticked on behind the unanswered dialog.
C10_Witness ==
    /\ is_working
    /\ dialog_open
    /\ worked_seconds = CHECK_IN_INTERVAL + 2
    /\ check_ins = << CHECK_IN_INTERVAL >>

\* C11: hourly_logs is append-only with strictly increasing ids: a step either
\* leaves the rows as they are or appends one row at the end whose id is
\* greater than every id before it, and only a step that answers the open
\* dialog (log_activity) appends.
C11_LogAppendOnly ==
    [][ \/ hourly_logs' = hourly_logs
        \/ /\ Len(hourly_logs') = Len(hourly_logs) + 1
           /\ SubSeq(hourly_logs', 1, Len(hourly_logs)) = hourly_logs
           /\ \A i \in 1..Len(hourly_logs) :
                 hourly_logs[i].id < hourly_logs'[Len(hourly_logs')].id
           /\ dialog_open /\ ~dialog_open' ]_vars

\* C11 witness: two rows were appended in this run, ids still increasing.
C11_Witness ==
    /\ Len(hourly_logs) = rows_at_start + 2
    /\ \A i \in 1..(Len(hourly_logs) - 1) :
          hourly_logs[i].id < hourly_logs[i + 1].id

\* C12: the progress a tick computes is min(worked_seconds / (daily_target *
\* 3600), 1): within [0, 1], and 1 exactly when worked_seconds has reached
\* daily_target * 3600.
C12_ProgressClamped ==
    [][ worked_seconds' # worked_seconds =>
            LET den == daily_target' * 3600
                p == progress_bar'
            IN  /\ p[2] > 0 /\ 0 <= p[1] /\ p[1] <= p[2]
                /\ IF worked_seconds' >= den
                   THEN p[1] = p[2]
                   ELSE p[1] * den = worked_seconds' * p[2]
                /\ (p[1] = p[2]) <=> (worked_seconds' >= den) ]_vars

\* C12 witness: target 10 and 50000 worked seconds show progress 1.
C12_Witness ==
    /\ is_working
    /\ daily_target = 10
    /\ worked_seconds = 50000
    /\ progress_bar[1] = progress_bar[2]

\* The number a digit string d shows, zero-padded to at least two digits.
Shows02d(d, n) ==
    /\ Len(d) >= 2
    /\ \A i \in 1..Len(d) : d[i] \in 0..9
    /\ int(d) = n
    /\ Len(d) > 2 => d[1] # 0

\* C13: after a tick the time shown is worked_seconds // 3600, (worked_seconds
\* % 3600) // 60 and worked_seconds % 60, each zero-padded to two digits, with
\* minutes and seconds two digits in 0..59 and the hours not wrapped at 24.
C13_TimeShown ==
    [][ worked_seconds' # worked_seconds =>
            LET s == worked_seconds'
                shown == timer_text'
            IN  /\ Len(shown) = 3
                /\ Shows02d(shown[1], s \div 3600)
                /\ Shows02d(shown[2], (s % 3600) \div 60)
                /\ Shows02d(shown[3], s % 60)
                /\ Len(shown[2]) = 2 /\ int(shown[2]) \in 0..59
                /\ Len(shown[3]) = 2 /\ int(shown[3]) \in 0..59
                /\ s = 3725 =>
                      shown = << << 0, 1 >>, << 0, 2 >>, << 0, 5 >> >>
                /\ s = 36000 =>
                      shown = << << 1, 0 >>, << 0, 0 >>, << 0, 0 >> >>
                /\ s = 86400 =>
                      shown = << << 2, 4 >>, << 0, 0 >>, << 0, 0 >> >> ]_vars

\* C13 witness: 3725 worked seconds are shown as 01:02:05.
C13_Witness ==
    /\ worked_seconds = 3725
    /\ timer_text = << << 0, 1 >>, << 0, 2 >>, << 0, 5 >> >>

C15_CooperativeStop ==
    /\ [][ (~is_working /\ ~is_working') =>
               worked_seconds' = worked_seconds ]_vars
    /\ (~is_working ~> (is_working \/ run_timers = 0))

\* C15 witness: after a stop the loops have ended, some seconds worked and
\* counted by completed sleeps.
C15_Witness ==
    /\ ~is_working
    /\ run_timers = 0
    /\ periods > 0
    /\ worked_seconds > periods

\* C16 as stated: the rows of the log are at most the check-ins raised, and
\* the log is empty while worked_seconds < 900.
C16_LogWithinCheckIns ==
    /\ Len(hourly_logs) <= Len(check_ins)
    /\ worked_seconds < CHECK_IN_INTERVAL => hourly_logs = << >>

\* C16 as amended: the rows written since the process began are at most the
\* check-ins raised, and none is written while worked_seconds < 900; the log
\* then holds the rows of earlier runs only.
C16_WrittenWithinCheckIns ==
    /\ Len(hourly_logs) - rows_at_start <= Len(check_ins)
    /\ Len(hourly_logs) >= rows_at_start
    /\ worked_seconds < CHECK_IN_INTERVAL => Len(hourly_logs) = rows_at_start

\* C16 witness: the dialog raised at 900 was still open at 1800; the one
\* answer given after the second check-in wrote the only row.
C16_Witness ==
    /\ worked_seconds = 2 * CHECK_IN_INTERVAL
    /\ Len(check_ins) = 2
    /\ ~dialog_open
    /\ Len(hourly_logs) = rows_at_start + 1

\* C17: in every reachable state the progress shown is min(worked_seconds /
\* (daily_target * 3600), 1) for the current worked_seconds and the current
\* daily_target, and the time shown is that of the current worked_seconds.
C17_DisplayIsCurrent ==
    LET den == daily_target * 3600
        p == progress_bar
    IN  /\ IF worked_seconds >= den
           THEN p[1] = p[2]
           ELSE p[1] * den = worked_seconds * p[2]
        /\ Len(timer_text) = 3
        /\ Shows02d(timer_text[1], worked_seconds \div 3600)
        /\ Shows02d(timer_text[2], (worked_seconds % 3600) \div 60)
        /\ Shows02d(timer_text[3], worked_seconds % 60)

====
